---- MODULE Spec2Model ----
(***************************************************************************)
(* Model of cmd/main.go of the kcp multicluster provider example: the      *)
(* startup sequence of main(), the provider goroutine, the manager's       *)
(* Start call, and the reconcile function registered with the controller   *)
(* builder.  The libraries main() calls (cluster provider, manager,        *)
(* controller builder, business reconciler) are the environment: every     *)
(* call into them is an action whose outcome is chosen with \E.            *)
(***************************************************************************)
EXTENDS Naturals, Sequences, FiniteSets

\* ---------------------------------------------------------------- bounds
NumWorkers == 2
MaxEpoch == 2

Workers == 1..NumWorkers
Epochs == 1..MaxEpoch
ClusterNames == {"c1", "c2"}
ObjectKeys == {"ns/obj"}

\* ------------------------------------------------------------- constants
Running == "running"
ExitSuccess == "exit 0"
ExitFailure == "exit 1"
DiedInLibrary == "ended inside ctrl.GetConfigOrDie"
NoClient == [kind |-> "nil", cluster |-> "nil", epoch |-> 0]
ProviderClient == [kind |-> "client", cluster |-> "provider-kubeconfig", epoch |-> 0]
NoErr == "nil"
ErrClusterNotFound == "ClusterNotFound"
ErrClusterNotReady == "ClusterNotReady"
ErrReconcile == "reconcileError"
ErrFailedToGetCluster == "failed to get cluster"
RequeueAfters == {"none", "30s"}
NoCluster == [name |-> "nil", epoch |-> 0]
EmptyResult == [requeueAfter |-> "none"]
NoScheme == [kind |-> "nil", cluster |-> "nil", epoch |-> 0]
NoReconciler == [Client |-> NoClient, Scheme |-> NoScheme, ProviderClient |-> NoClient]
NoLookup == [name |-> "nil", cl |-> NoCluster, err |-> NoErr]
NoRequest == [ClusterName |-> "nil", NamespacedName |-> "nil"]

\* The steps of main() that can end the process, in program order.
StartupSteps ==
  << "webhookCert", "metricsCert", "newProvider", "statKubeconfig",
     "buildConfig", "newClient", "newManager", "complete", "healthz", "readyz" >>

StartupStepSet == { StartupSteps[i] : i \in 1..Len(StartupSteps) }

\* The message main() passes to setupLog.Error for each call that can fail.
ErrorMessage(step) ==
  CASE step = "webhookCert" -> "Failed to initialize webhook certificate watcher"
    [] step = "metricsCert" -> "to initialize metrics certificate watcher"
    [] step = "newProvider" -> "unable to construct cluster provider"
    [] step = "statKubeconfig" -> "unable to find provider kubeconfig"
    [] step = "buildConfig" -> "unable to build provider kubeconfig"
    [] step = "newClient" -> "unable to create dynamic client"
    [] step = "newManager" -> "unable to set up overall controller manager"
    [] step = "complete" -> "unable to create controller"
    [] step = "healthz" -> "unable to set up health check"
    [] step = "readyz" -> "unable to set up ready check"
    [] step = "providerRun" -> "unable to run provider"
    [] step = "mgrStart" -> "problem running manager"

VARIABLES
  pc,                 \* position of main()
  exitCode,           \* Running, or how the process ended
  errLog,             \* messages written by setupLog.Error, in order
  failed,             \* steps whose call returned an error
  webhookCertPath,    \* len(webhookCertPath) > 0
  metricsCertPath,    \* len(metricsCertPath) > 0
  provider,           \* the cluster provider, "nil" until constructed
  providerClusterDynamicClient,
  mgr,                \* the manager, "nil" until constructed
  controller,         \* TRUE once the reconcile function is registered
  checks,             \* health checks registered with the manager
  providerRun,        \* position of the provider goroutine: "notStarted",
                      \* "spawned", "running", "returned" (nil), "failed"
                      \* (Run returned an error), "logged" (error logged)
  mgrStart,           \* "notCalled" | "running" | "returned"
  inv,                \* per worker: the reconcile invocation in progress
  reconcileInvoked    \* TRUE once the reconcile function has been entered

vars ==
  << pc, exitCode, errLog, failed, webhookCertPath, metricsCertPath, provider,
     providerClusterDynamicClient, mgr, controller, checks, providerRun,
     mgrStart, inv, reconcileInvoked >>

mainVars ==
  << pc, exitCode, errLog, failed >>

\* An invocation record.  looked and businessCalled are history fields: what
\* mgr.GetCluster handed back in this invocation, and whether
\* reconciler.Reconcile has been called in it.
Idle ==
  [ pc |-> "idle", req |-> NoRequest, cl |-> NoCluster, getErr |-> NoErr,
    reconciler |-> NoReconciler, result |-> EmptyResult, err |-> NoErr,
    looked |-> NoLookup, businessCalled |-> FALSE ]

Init ==
  /\ pc = "webhookCert"
  /\ exitCode = Running
  /\ errLog = << >>
  /\ failed = {}
  /\ webhookCertPath \in BOOLEAN
  /\ metricsCertPath \in BOOLEAN
  /\ provider = "nil"
  /\ providerClusterDynamicClient = NoClient
  /\ mgr = "nil"
  /\ controller = FALSE
  /\ checks = {}
  /\ providerRun = "notStarted"
  /\ mgrStart = "notCalled"
  /\ inv = [w \in Workers |-> Idle]
  /\ reconcileInvoked = FALSE

\* setupLog.Error(err, msg); os.Exit(1).  One step during startup: until the
\* provider goroutine is spawned main() is the only thread of main.go.
Fatal(step) ==
  /\ errLog' = Append(errLog, ErrorMessage(step))
  /\ failed' = failed \cup {step}
  /\ exitCode' = ExitFailure
  /\ pc' = pc

\* One guarded call of main(): on error log and exit, otherwise go on.
StartupStep(step, next, ok) ==
  /\ pc = step
  /\ exitCode = Running
  /\ IF ok
       THEN /\ pc' = next
            /\ UNCHANGED << exitCode, errLog, failed >>
       ELSE Fatal(step)

\* certwatcher.New for the webhook certificate, only if a path was given.
WebhookCertWatcher ==
  /\ \E ok \in (IF webhookCertPath THEN BOOLEAN ELSE {TRUE}) :
       StartupStep("webhookCert", "metricsCert", ok)
  /\ UNCHANGED << webhookCertPath, metricsCertPath, provider,
                  providerClusterDynamicClient, mgr, controller, checks,
                  providerRun, mgrStart, inv, reconcileInvoked >>

\* certwatcher.New for the metrics certificate, only if a path was given.
MetricsCertWatcher ==
  /\ \E ok \in (IF metricsCertPath THEN BOOLEAN ELSE {TRUE}) :
       StartupStep("metricsCert", "getConfig", ok)
  /\ UNCHANGED << webhookCertPath, metricsCertPath, provider,
                  providerClusterDynamicClient, mgr, controller, checks,
                  providerRun, mgrStart, inv, reconcileInvoked >>

\* cfg := ctrl.GetConfigOrDie(): no error is returned to main(); the call
\* yields a config or the library ends the process itself.
GetConfigOrDie ==
  /\ pc = "getConfig"
  /\ exitCode = Running
  /\ \E ok \in BOOLEAN :
       IF ok
         THEN /\ pc' = "newProvider"
              /\ UNCHANGED exitCode
         ELSE /\ exitCode' = DiedInLibrary
              /\ UNCHANGED pc
  /\ UNCHANGED << errLog, failed, webhookCertPath, metricsCertPath, provider,
                  providerClusterDynamicClient, mgr, controller, checks,
                  providerRun, mgrStart, inv, reconcileInvoked >>

\* virtualworkspace.New(cfg, ...)
NewProvider ==
  /\ \E ok \in BOOLEAN :
       /\ StartupStep("newProvider", "statKubeconfig", ok)
       /\ provider' = IF ok THEN "provider" ELSE "nil"
  /\ UNCHANGED << webhookCertPath, metricsCertPath,
                  providerClusterDynamicClient, mgr, controller, checks,
                  providerRun, mgrStart, inv, reconcileInvoked >>

\* os.Stat(providerKubeConfig)
StatKubeconfig ==
  /\ \E ok \in BOOLEAN : StartupStep("statKubeconfig", "buildConfig", ok)
  /\ UNCHANGED << webhookCertPath, metricsCertPath, provider,
                  providerClusterDynamicClient, mgr, controller, checks,
                  providerRun, mgrStart, inv, reconcileInvoked >>

\* clientcmd.BuildConfigFromFlags("", providerKubeConfig)
BuildConfig ==
  /\ \E ok \in BOOLEAN : StartupStep("buildConfig", "newClient", ok)
  /\ UNCHANGED << webhookCertPath, metricsCertPath, provider,
                  providerClusterDynamicClient, mgr, controller, checks,
                  providerRun, mgrStart, inv, reconcileInvoked >>

\* providerClusterDynamicClient, err := client.New(config, ...)
NewClient ==
  /\ \E ok \in BOOLEAN :
       /\ StartupStep("newClient", "newManager", ok)
       /\ providerClusterDynamicClient' = IF ok THEN ProviderClient ELSE NoClient
  /\ UNCHANGED << webhookCertPath, metricsCertPath, provider, mgr, controller,
                  checks, providerRun, mgrStart, inv, reconcileInvoked >>

\* mgr, err := mcmanager.New(cfg, provider, ...)
NewManager ==
  /\ \E ok \in BOOLEAN :
       /\ StartupStep("newManager", "complete", ok)
       /\ mgr' = IF ok THEN "mgr" ELSE "nil"
  /\ UNCHANGED << webhookCertPath, metricsCertPath, provider,
                  providerClusterDynamicClient, controller, checks,
                  providerRun, mgrStart, inv, reconcileInvoked >>

\* mcbuilder.ControllerManagedBy(mgr)...Complete(mcreconcile.Func(...))
CompleteController ==
  /\ \E ok \in BOOLEAN :
       /\ StartupStep("complete", "healthz", ok)
       /\ controller' = ok
  /\ UNCHANGED << webhookCertPath, metricsCertPath, provider,
                  providerClusterDynamicClient, mgr, checks, providerRun,
                  mgrStart, inv, reconcileInvoked >>

\* mgr.AddHealthzCheck("healthz", healthz.Ping)
AddHealthzCheck ==
  /\ \E ok \in BOOLEAN :
       /\ StartupStep("healthz", "readyz", ok)
       /\ checks' = IF ok THEN checks \cup {"healthz"} ELSE checks
  /\ UNCHANGED << webhookCertPath, metricsCertPath, provider,
                  providerClusterDynamicClient, mgr, controller, providerRun,
                  mgrStart, inv, reconcileInvoked >>

\* mgr.AddReadyzCheck("readyz", healthz.Ping)
AddReadyzCheck ==
  /\ \E ok \in BOOLEAN :
       /\ StartupStep("readyz", "startProvider", ok)
       /\ checks' = IF ok THEN checks \cup {"readyz"} ELSE checks
  /\ UNCHANGED << webhookCertPath, metricsCertPath, provider,
                  providerClusterDynamicClient, mgr, controller, providerRun,
                  mgrStart, inv, reconcileInvoked >>

\* if provider != nil { go func() { provider.Run(ctx, mgr) ... }() }
StartProvider ==
  /\ pc = "startProvider"
  /\ exitCode = Running
  /\ pc' = "startManager"
  /\ providerRun' = IF provider # "nil" THEN "spawned" ELSE providerRun
  /\ UNCHANGED << exitCode, errLog, failed, webhookCertPath, metricsCertPath,
                  provider, providerClusterDynamicClient, mgr, controller,
                  checks, mgrStart, inv, reconcileInvoked >>

\* The goroutine is scheduled and calls provider.Run(ctx, mgr).
ProviderRunCall ==
  /\ providerRun = "spawned"
  /\ exitCode = Running
  /\ providerRun' = "running"
  /\ UNCHANGED << mainVars, webhookCertPath, metricsCertPath, provider,
                  providerClusterDynamicClient, mgr, controller, checks,
                  mgrStart, inv, reconcileInvoked >>

\* provider.Run returns in the goroutine: nil ends the goroutine, an error
\* takes it into the if-body.
ProviderRunReturn ==
  /\ providerRun = "running"
  /\ exitCode = Running
  /\ \E ok \in BOOLEAN :
       IF ok
         THEN /\ providerRun' = "returned"
              /\ UNCHANGED failed
         ELSE /\ providerRun' = "failed"
              /\ failed' = failed \cup {"providerRun"}
  /\ UNCHANGED << pc, exitCode, errLog, webhookCertPath, metricsCertPath,
                  provider, providerClusterDynamicClient, mgr, controller,
                  checks, mgrStart, inv, reconcileInvoked >>

\* setupLog.Error(err, "unable to run provider") in the goroutine.
ProviderRunLogError ==
  /\ providerRun = "failed"
  /\ exitCode = Running
  /\ errLog' = Append(errLog, ErrorMessage("providerRun"))
  /\ providerRun' = "logged"
  /\ UNCHANGED << pc, exitCode, failed, webhookCertPath, metricsCertPath,
                  provider, providerClusterDynamicClient, mgr, controller,
                  checks, mgrStart, inv, reconcileInvoked >>

\* os.Exit(1) in the goroutine.
ProviderRunExit ==
  /\ providerRun = "logged"
  /\ exitCode = Running
  /\ exitCode' = ExitFailure
  /\ UNCHANGED << pc, errLog, failed, webhookCertPath, metricsCertPath,
                  provider, providerClusterDynamicClient, mgr, controller,
                  checks, providerRun, mgrStart, inv, reconcileInvoked >>

\* main() calls mgr.Start(ctx), which blocks.
MgrStartCall ==
  /\ pc = "startManager"
  /\ exitCode = Running
  /\ pc' = "managerRunning"
  /\ mgrStart' = "running"
  /\ UNCHANGED << exitCode, errLog, failed, webhookCertPath, metricsCertPath,
                  provider, providerClusterDynamicClient, mgr, controller,
                  checks, providerRun, inv, reconcileInvoked >>

\* mgr.Start returns to main(), with nil or with an error.
MgrStartReturn ==
  /\ pc = "managerRunning"
  /\ exitCode = Running
  /\ mgrStart' = "returned"
  /\ \E ok \in BOOLEAN :
       IF ok
         THEN /\ pc' = "mainReturn"
              /\ UNCHANGED failed
         ELSE /\ pc' = "mgrStartLog"
              /\ failed' = failed \cup {"mgrStart"}
  /\ UNCHANGED << exitCode, errLog, webhookCertPath, metricsCertPath, provider,
                  providerClusterDynamicClient, mgr, controller, checks,
                  providerRun, inv, reconcileInvoked >>

\* setupLog.Error(err, "problem running manager") in main().
MgrStartLogError ==
  /\ pc = "mgrStartLog"
  /\ exitCode = Running
  /\ errLog' = Append(errLog, ErrorMessage("mgrStart"))
  /\ pc' = "mgrStartExit"
  /\ UNCHANGED << exitCode, failed, webhookCertPath, metricsCertPath, provider,
                  providerClusterDynamicClient, mgr, controller, checks,
                  providerRun, mgrStart, inv, reconcileInvoked >>

\* os.Exit(1) in main().
MgrStartExit ==
  /\ pc = "mgrStartExit"
  /\ exitCode = Running
  /\ exitCode' = ExitFailure
  /\ UNCHANGED << pc, errLog, failed, webhookCertPath, metricsCertPath,
                  provider, providerClusterDynamicClient, mgr, controller,
                  checks, providerRun, mgrStart, inv, reconcileInvoked >>

\* main() returns after mgr.Start returned nil: the process ends with status
\* 0, whatever the other goroutines are doing.
MainReturn ==
  /\ pc = "mainReturn"
  /\ exitCode = Running
  /\ pc' = "done"
  /\ exitCode' = ExitSuccess
  /\ UNCHANGED << errLog, failed, webhookCertPath, metricsCertPath, provider,
                  providerClusterDynamicClient, mgr, controller, checks,
                  providerRun, mgrStart, inv, reconcileInvoked >>

\* ------------------------------------------------- the reconcile function
\* cl.GetClient() and cl.GetScheme() of a cluster object.
GetClient(cl) ==
  [kind |-> "client", cluster |-> cl.name, epoch |-> cl.epoch]

GetScheme(cl) ==
  [kind |-> "scheme", cluster |-> cl.name, epoch |-> cl.epoch]

\* What mgr.GetCluster(ctx, name) can hand back: an error, or the cluster
\* object currently registered under that name (epoch tells apart the objects
\* registered under one name over time).
GetClusterOutcomes(name) ==
  { [name |-> name, cl |-> NoCluster, err |-> e] :
      e \in {ErrClusterNotFound, ErrClusterNotReady} }
  \cup
  { [name |-> name, cl |-> [name |-> name, epoch |-> e], err |-> NoErr] :
      e \in Epochs }

\* The function body with the error check dropped: the reconciler is built
\* from whatever GetCluster handed back.
AfterGetClusterIgnoreErr(cur, out, providerClient) ==
  [cur EXCEPT !.pc = "business",
              !.cl = out.cl,
              !.getErr = out.err,
              !.reconciler = [ Client |-> GetClient(out.cl),
                               Scheme |-> GetScheme(out.cl),
                               ProviderClient |-> providerClient ]]

\* The function body after the GetCluster call: return the wrapped error, or
\* build the ApplicationReconciler from the cluster and the provider client.
AfterGetCluster(cur, out, providerClient) ==
  IF out.err # NoErr
    THEN [cur EXCEPT !.pc = "returned",
                     !.getErr = out.err,
                     !.result = EmptyResult,
                     !.err = ErrFailedToGetCluster]
    ELSE [cur EXCEPT !.pc = "business",
                     !.cl = out.cl,
                     !.reconciler = [ Client |-> GetClient(out.cl),
                                      Scheme |-> GetScheme(out.cl),
                                      ProviderClient |-> providerClient ]]

\* The started manager calls the registered function with a request.
ReconcileBegin(w) ==
  /\ exitCode = Running
  /\ mgrStart = "running"
  /\ controller
  /\ inv[w].pc = "idle"
  /\ \E c \in ClusterNames, k \in ObjectKeys :
       inv' = [inv EXCEPT ![w] =
                 [Idle EXCEPT !.pc = "getCluster",
                              !.req = [ClusterName |-> c, NamespacedName |-> k]]]
  /\ reconcileInvoked' = TRUE
  /\ UNCHANGED << mainVars, webhookCertPath, metricsCertPath, provider,
                  providerClusterDynamicClient, mgr, controller, checks,
                  providerRun, mgrStart >>

\* cl, err := mgr.GetCluster(ctx, req.ClusterName) and what follows it up to
\* the call of reconciler.Reconcile.
ReconcileGetCluster(w) ==
  /\ exitCode = Running
  /\ inv[w].pc = "getCluster"
  /\ \E out \in GetClusterOutcomes(inv[w].req.ClusterName) :
       inv' = [inv EXCEPT ![w] =
                 [AfterGetCluster(inv[w], out, providerClusterDynamicClient)
                    EXCEPT !.looked = out]]
  /\ UNCHANGED << mainVars, webhookCertPath, metricsCertPath, provider,
                  providerClusterDynamicClient, mgr, controller, checks,
                  providerRun, mgrStart, reconcileInvoked >>

\* return reconciler.Reconcile(ctx, reconcile.Request{...}): the business
\* reconciler runs and its result and error are returned unchanged.
ReconcileBusiness(w) ==
  /\ exitCode = Running
  /\ inv[w].pc = "business"
  /\ \E ra \in RequeueAfters, e \in {NoErr, ErrReconcile} :
       inv' = [inv EXCEPT ![w] =
                 [@ EXCEPT !.pc = "returned",
                           !.businessCalled = TRUE,
                           !.result = [requeueAfter |-> ra],
                           !.err = e]]
  /\ UNCHANGED << mainVars, webhookCertPath, metricsCertPath, provider,
                  providerClusterDynamicClient, mgr, controller, checks,
                  providerRun, mgrStart, reconcileInvoked >>

\* The manager takes the returned result; the worker is free again.
ReconcileEnd(w) ==
  /\ exitCode = Running
  /\ inv[w].pc = "returned"
  /\ inv' = [inv EXCEPT ![w] = Idle]
  /\ UNCHANGED << mainVars, webhookCertPath, metricsCertPath, provider,
                  providerClusterDynamicClient, mgr, controller, checks,
                  providerRun, mgrStart, reconcileInvoked >>

Next ==
  \/ WebhookCertWatcher
  \/ MetricsCertWatcher
  \/ GetConfigOrDie
  \/ NewProvider
  \/ StatKubeconfig
  \/ BuildConfig
  \/ NewClient
  \/ NewManager
  \/ CompleteController
  \/ AddHealthzCheck
  \/ AddReadyzCheck
  \/ StartProvider
  \/ ProviderRunCall
  \/ ProviderRunReturn
  \/ ProviderRunLogError
  \/ ProviderRunExit
  \/ MgrStartCall
  \/ MgrStartReturn
  \/ MgrStartLogError
  \/ MgrStartExit
  \/ MainReturn
  \/ \E w \in Workers : ReconcileBegin(w)
  \/ \E w \in Workers : ReconcileGetCluster(w)
  \/ \E w \in Workers : ReconcileBusiness(w)
  \/ \E w \in Workers : ReconcileEnd(w)

Spec == Init /\ [][Next]_vars

\* ------------------------------------------------------------------ claims
\* The startup part of C8: a startup call of main() that returned an error
\* has logged its message and ended the process with status 1 at that step,
\* before provider.Run, mgr.Start or the reconcile function were entered.
StartupFailFast ==
  /\ \A s \in failed \cap StartupStepSet :
       /\ exitCode = ExitFailure
       /\ pc = s
       /\ errLog = << ErrorMessage(s) >>
       /\ providerRun = "notStarted"
       /\ mgrStart = "notCalled"
       /\ ~reconcileInvoked
       /\ \A w \in Workers : inv[w] = Idle
  /\ (providerRun # "notStarted" \/ mgrStart # "notCalled" \/ reconcileInvoked)
       => failed \cap StartupStepSet = {}

\* The process has ended although call s returned an error: then with status 1.
EndsNonZeroAfter(s) ==
  (s \in failed /\ exitCode # Running) => exitCode = ExitFailure

\* C8: startup is fail-fast.  A startup step that fails logs its subsystem and
\* ends the process with exit code 1 at that step; then provider.Run and
\* mgr.Start have not been called and the reconcile function has never been
\* entered.  An error returned later by provider.Run or by mgr.Start also ends
\* the process with a non-zero status.
C8_StartupFailFast ==
  /\ StartupFailFast
  /\ EndsNonZeroAfter("mgrStart")
  /\ EndsNonZeroAfter("providerRun")

\* What C10 requires of every reconcile invocation in its current state.
RoutingCorrect(w) ==
  /\ (inv[w].pc = "business" \/ inv[w].businessCalled) =>
       /\ inv[w].looked.err = NoErr
       /\ inv[w].looked.name = inv[w].req.ClusterName
       /\ inv[w].looked.cl.name = inv[w].req.ClusterName
       /\ inv[w].reconciler.Client = GetClient(inv[w].looked.cl)
       /\ inv[w].reconciler.Scheme = GetScheme(inv[w].looked.cl)
       /\ inv[w].reconciler.ProviderClient = ProviderClient
       /\ providerClusterDynamicClient = ProviderClient
  /\ (inv[w].pc = "returned" /\ inv[w].looked.err # NoErr) =>
       /\ inv[w].result = EmptyResult
       /\ inv[w].err # NoErr
       /\ ~inv[w].businessCalled
       /\ inv[w].reconciler = NoReconciler

\* C10: routing is cluster-correct.  The business reconciler is called only
\* with the client and scheme of the cluster that GetCluster(req.ClusterName)
\* returned without error in the same invocation, and with the one provider
\* client built at startup, which is never replaced once built; when
\* GetCluster fails the invocation returns the empty result with an error and
\* the business reconciler is not called.
C10_RoutingClusterCorrect ==
  /\ [](\A w \in Workers : RoutingCorrect(w))
  /\ [][providerClusterDynamicClient # NoClient =>
          providerClusterDynamicClient' = providerClusterDynamicClient]_vars

\* C10 witness: one invocation is inside the business reconciler for c1 while
\* another has returned because GetCluster failed for c2.
C10_Witness ==
  \E w1, w2 \in Workers :
    /\ inv[w1].pc = "business"
    /\ inv[w1].req.ClusterName = "c1"
    /\ inv[w2].pc = "returned"
    /\ inv[w2].req.ClusterName = "c2"
    /\ inv[w2].looked.err = ErrClusterNotReady
====
